---- MODULE Spec2Model ----
(***************************************************************************)
(* plio/io/io_controlnetwork.py: reading and writing ISIS control network  *)
(* files (to_isis, from_isis, IsisStore).                                  *)
(*                                                                         *)
(* Units and abstractions.                                                 *)
(*  - A file is a function from byte offsets to cells; offsets never       *)
(*    written below the end of the file read as 0 (a sparse file).         *)
(*  - Messages are serialized by a tagged-field codec: a scalar field is   *)
(*    the two cells <<tag, value>>, a repeated scalar field one such pair  *)
(*    per element, an embedded message <<tag, length>> followed by its     *)
(*    cells.  The tag of a field is its position in the schema's field     *)
(*    table.  Parsing merges repeated occurrences and fails on an unknown  *)
(*    tag, a truncated field or a missing required field.                  *)
(*  - Doubles are counted in half pixels, so 0.5 is HalfPixel = 1 and the  *)
(*    in-memory sample 10.0 is 20.  Strings and enums are one cell.        *)
(*  - The schema tables hold one field of every kind the code treats       *)
(*    differently: required scalars, optional scalars, the two covariance  *)
(*    arrays, the unsupported point log, the measures and the coordinates. *)
(*  - The PVL text header is one cell per key, in the order of PvlKeys.    *)
(***************************************************************************)
EXTENDS Integers, Sequences, FiniteSets, TLC

HEADERSTARTBYTE == 65536

HalfPixel == 1

\* Bounds of the inputs.
MaxRows == 3
MaxPointId == 2

------------------------------------------------------------------------------
\* Generic helpers

Min2(a, b) == IF a <= b THEN a ELSE b

SetMax(S) == CHOOSE x \in S : \A y \in S : y <= x

SetMin(S) == CHOOSE x \in S : \A y \in S : x <= y

RECURSIVE SeqSum(_)
SeqSum(s) == IF s = <<>> THEN 0 ELSE s[1] + SeqSum(Tail(s))

RECURSIVE Flat(_)
Flat(ss) == IF ss = <<>> THEN <<>> ELSE ss[1] \o Flat(Tail(ss))

IndexOf(s, x) == CHOOSE k \in 1..Len(s) : s[k] = x

InSeq(s, x) == \E k \in 1..Len(s) : s[k] = x

------------------------------------------------------------------------------
\* Schema field tables (the generated protobuf descriptors)

PointFields == <<"id", "type", "referenceIndex", "aprioriCovar", "adjustedCovar", "log", "measures">>

PointRepeated == {"aprioriCovar", "adjustedCovar", "log", "measures"}

PointRequired == {"id", "type"}

PointScalars == {"id", "type", "referenceIndex"}

MeasureFields == <<"serialnumber", "type", "sample", "line", "sampleResidual", "apriorisample", "aprioriline">>

MeasureRequired == {"serialnumber", "type"}

MeasureScalars == {MeasureFields[k] : k \in 1..Len(MeasureFields)}

HeaderFields == <<"networkId", "targetName", "created", "lastModified", "description", "userName", "pointMessageSizes">>

HeaderScalars == {"networkId", "targetName", "created", "lastModified", "description", "userName"}

\* IsisStore.point_field_map / measure_field_map: schema name -> column name
point_field_map(attr) ==
    IF attr = "type" THEN "pointType"
    ELSE IF attr = "log" THEN "pointLog"
    ELSE attr

measure_field_map(attr) == IF attr = "type" THEN "measureType" ELSE attr

------------------------------------------------------------------------------
\* The tagged-field codec

EmptyMeasure == [has |-> {}, v |-> [f \in MeasureScalars |-> 0]]

EmptyPoint ==
    [has |-> {}, v |-> [f \in PointScalars |-> 0],
     aprioriCovar |-> <<>>, adjustedCovar |-> <<>>, log |-> <<>>, measures |-> <<>>]

EmptyHeader == [has |-> {}, v |-> [f \in HeaderScalars |-> 0], pointMessageSizes |-> <<>>]

RECURSIVE EmitRepeated(_, _)
EmitRepeated(tag, s) == IF s = <<>> THEN <<>> ELSE <<tag, s[1]>> \o EmitRepeated(tag, Tail(s))

RECURSIVE EmitScalars(_, _, _)
EmitScalars(fields, msg, k) ==
    IF k > Len(fields) THEN <<>>
    ELSE (IF fields[k] \in msg.has /\ fields[k] \in DOMAIN msg.v
             THEN <<k, msg.v[fields[k]]>> ELSE <<>>)
         \o EmitScalars(fields, msg, k + 1)

SerializeMeasure(m) == EmitScalars(MeasureFields, m, 1)

RECURSIVE EmitMeasures(_, _)
EmitMeasures(tag, ms) ==
    IF ms = <<>> THEN <<>>
    ELSE LET b == SerializeMeasure(ms[1])
         IN <<tag, Len(b)>> \o b \o EmitMeasures(tag, Tail(ms))

\* Fields are written in field-number order.
SerializePoint(p) ==
    EmitScalars(PointFields, p, 1)
    \o EmitRepeated(IndexOf(PointFields, "aprioriCovar"), p.aprioriCovar)
    \o EmitRepeated(IndexOf(PointFields, "adjustedCovar"), p.adjustedCovar)
    \o EmitRepeated(IndexOf(PointFields, "log"), p.log)
    \o EmitMeasures(IndexOf(PointFields, "measures"), p.measures)

ByteSize(p) == Len(SerializePoint(p))

SerializeHeader(h) ==
    EmitScalars(HeaderFields, h, 1)
    \o EmitRepeated(IndexOf(HeaderFields, "pointMessageSizes"), h.pointMessageSizes)

Bad == [ok |-> FALSE]

RECURSIVE ParseMeasureFrom(_, _, _)
ParseMeasureFrom(b, i, acc) ==
    IF i > Len(b) THEN
        IF MeasureRequired \subseteq acc.has THEN [ok |-> TRUE, msg |-> acc] ELSE Bad
    ELSE IF i = Len(b) \/ b[i] \notin 1..Len(MeasureFields) THEN Bad
    ELSE LET f == MeasureFields[b[i]]
         IN ParseMeasureFrom(b, i + 2,
                [acc EXCEPT !.has = @ \cup {f}, !.v[f] = b[i + 1]])

ParseMeasure(b) == ParseMeasureFrom(b, 1, EmptyMeasure)

RECURSIVE ParsePointFrom(_, _, _)
ParsePointFrom(b, i, acc) ==
    IF i > Len(b) THEN
        IF PointRequired \subseteq acc.has THEN [ok |-> TRUE, msg |-> acc] ELSE Bad
    ELSE IF i = Len(b) \/ b[i] \notin 1..Len(PointFields) THEN Bad
    ELSE LET f == PointFields[b[i]]
             x == b[i + 1]
         IN IF f \in PointScalars THEN
                ParsePointFrom(b, i + 2, [acc EXCEPT !.has = @ \cup {f}, !.v[f] = x])
            ELSE IF f = "aprioriCovar" THEN
                ParsePointFrom(b, i + 2, [acc EXCEPT !.aprioriCovar = Append(@, x)])
            ELSE IF f = "adjustedCovar" THEN
                ParsePointFrom(b, i + 2, [acc EXCEPT !.adjustedCovar = Append(@, x)])
            ELSE IF f = "log" THEN
                ParsePointFrom(b, i + 2, [acc EXCEPT !.log = Append(@, x)])
            ELSE IF i + 1 + x > Len(b) THEN Bad
            ELSE LET m == ParseMeasure(SubSeq(b, i + 2, i + 1 + x))
                 IN IF m.ok
                    THEN ParsePointFrom(b, i + 2 + x,
                             [acc EXCEPT !.measures = Append(@, m.msg)])
                    ELSE Bad

\* ControlPointFileEntryV0002/V0005.ParseFromString
ParsePoint(b) == ParsePointFrom(b, 1, EmptyPoint)

RECURSIVE ParseHeaderFrom(_, _, _)
ParseHeaderFrom(b, i, acc) ==
    IF i > Len(b) THEN [ok |-> TRUE, msg |-> acc]
    ELSE IF i = Len(b) \/ b[i] \notin 1..Len(HeaderFields) THEN Bad
    ELSE LET f == HeaderFields[b[i]]
         IN IF f \in HeaderScalars THEN
                ParseHeaderFrom(b, i + 2, [acc EXCEPT !.has = @ \cup {f}, !.v[f] = b[i + 1]])
            ELSE ParseHeaderFrom(b, i + 2,
                     [acc EXCEPT !.pointMessageSizes = Append(@, b[i + 1])])

\* ControlNetFileHeaderV0002/V0005.ParseFromString
ParseHeader(b) == ParseHeaderFrom(b, 1, EmptyHeader)

\* struct.unpack('I', b)[0] for the four cells of b
Unpack32(b) == b[1] + 256 * b[2] + 65536 * b[3] + 16777216 * b[4]

\* struct.pack('<I', n)
Pack32(n) == <<n % 256, (n \div 256) % 256, (n \div 65536) % 256, (n \div 16777216) % 256>>

------------------------------------------------------------------------------
\* Files

EmptyFile == [o \in {} |-> 0]

FileSize(f) == IF DOMAIN f = {} THEN 0 ELSE SetMax(DOMAIN f) + 1

\* handle.seek(offset); handle.write(data)
WriteAt(f, data, offset) ==
    [o \in DOMAIN f \cup (offset..(offset + Len(data) - 1)) |->
        IF o >= offset /\ o < offset + Len(data) THEN data[o - offset + 1] ELSE f[o]]

\* handle.seek(pos); handle.read(n): short at the end of the file
ReadAt(f, pos, n) ==
    LET end == Min2(pos + n, FileSize(f))
    IN [k \in 1..(IF end > pos THEN end - pos ELSE 0) |->
           IF pos + k - 1 \in DOMAIN f THEN f[pos + k - 1] ELSE 0]

------------------------------------------------------------------------------
\* Data frames: a column set and a sequence of rows (functions on column names)

PointCols == {point_field_map(PointFields[k]) : k \in {j \in 1..Len(PointFields) : PointFields[j] # "measures"}}

MeasureCols == {measure_field_map(MeasureFields[k]) : k \in 1..Len(MeasureFields)}

AllCols == PointCols \cup MeasureCols

RequiredCols == {"id", "pointType", "serialnumber", "measureType", "sample", "line"}

\* A frame has the required columns only (every other field is left out of
\* the messages) or every column of the schema.
ColSets == {RequiredCols, AllCols}

PointIds == 1..MaxPointId

\* Point-level values depend on the id only, so that every row of a point
\* carries the same point attributes.
AprioriOf(id) == IF id = 1 THEN <<1, 2>> ELSE <<>>

AdjustedOf(id) == IF id = 1 THEN <<3>> ELSE <<4, 5>>

\* The k-th row of a frame, a measure of point id.  The first row has
\* sample 10.0 and line 20.0.
InputRow(id, k) ==
    [c \in AllCols |->
        CASE c = "id" -> id
          [] c = "pointType" -> 2
          [] c = "referenceIndex" -> 0
          [] c = "aprioriCovar" -> AprioriOf(id)
          [] c = "adjustedCovar" -> AdjustedOf(id)
          [] c = "pointLog" -> <<7>>
          [] c = "serialnumber" -> k
          [] c = "measureType" -> 3
          [] c = "sample" -> 20 + 2 * (k - 1)
          [] c = "line" -> 40 + 2 * (k - 1)
          [] c = "sampleResidual" -> 5
          [] c = "apriorisample" -> 22
          [] c = "aprioriline" -> 42]

IdSeqs == UNION {[1..n -> PointIds] : n \in 1..MaxRows}

DataFrames ==
    {[cols |-> c, rows |-> [k \in 1..Len(ids) |-> InputRow(ids[k], k)]] :
        ids \in IdSeqs, c \in ColSets}

Versions == {2, 3, 5}

SupportedVersions == {2, 5}

HeaderStartByteArgs == {HEADERSTARTBYTE, 1024}

\* The (version, headerstartbyte) pairs of the calls: the other offset is
\* passed with the default version.
ToIsisArgs ==
    {a \in Versions \X HeaderStartByteArgs : a[1] = 2 \/ a[2] = HEADERSTARTBYTE}

------------------------------------------------------------------------------
\* IsisStore.create_points

\* (a create_points that applied the offset twice)
ToIsisPixelTwice(x) == x + HalfPixel + HalfPixel

ToIsisPixel(x) == x + HalfPixel

FromIsisPixel(x) == x - HalfPixel

RECURSIVE SortAsc(_)
SortAsc(S) == IF S = {} THEN <<>> ELSE <<SetMin(S)>> \o SortAsc(S \ {SetMin(S)})

\* the ids in the order in which each first occurs
RECURSIVE FirstOccurrenceKeys(_)
FirstOccurrenceKeys(rows) ==
    IF rows = <<>> THEN <<>>
    ELSE LET r == FirstOccurrenceKeys(SubSeq(rows, 1, Len(rows) - 1))
             i == rows[Len(rows)]["id"]
         IN IF InSeq(r, i) THEN r ELSE Append(r, i)

\* df.groupby('id'): the group keys, sorted (pandas' default sort=True)
GroupKeys(rows) == SortAsc({rows[k]["id"] : k \in 1..Len(rows)})

\* the rows of one group, in row order
Group(rows, i) == SelectSeq(rows, LAMBDA r : r["id"] = i)

\* _set_pid with pointid_prefix = pointid_suffix = None
SetPid(i) == i

RECURSIVE SetPointAttrs(_, _, _, _)
SetPointAttrs(spec, ref, cols, k) ==
    IF k > Len(PointFields) THEN spec
    ELSE LET attr == PointFields[k]
             df_attr == point_field_map(attr)
             next ==
                IF df_attr \notin cols THEN spec
                ELSE IF df_attr = "pointLog" THEN spec
                ELSE IF df_attr = "aprioriCovar" \/ df_attr = "adjustedCovar" THEN
                    IF ref[df_attr] # <<>>
                    THEN [spec EXCEPT !.aprioriCovar = @ \o ref[df_attr]]
                    ELSE spec
                ELSE IF attr \in PointRepeated THEN
                    [spec EXCEPT ![attr] = @ \o ref[df_attr]]
                ELSE [spec EXCEPT !.has = @ \cup {attr}, !.v[attr] = ref[df_attr]]
         IN SetPointAttrs(next, ref, cols, k + 1)

RECURSIVE SetMeasureAttrs(_, _, _, _)
SetMeasureAttrs(spec, m, cols, k) ==
    IF k > Len(MeasureFields) THEN spec
    ELSE LET attr == MeasureFields[k]
             df_attr == measure_field_map(attr)
             next ==
                IF df_attr \in cols
                THEN [spec EXCEPT !.has = @ \cup {attr}, !.v[attr] = m[df_attr]]
                ELSE spec
         IN SetMeasureAttrs(next, m, cols, k + 1)

MeasureSpec(m, cols) ==
    LET a == SetMeasureAttrs(EmptyMeasure, m, cols, 1)
        b == [a EXCEPT !.has = @ \cup {"sample", "line"},
                       !.v["sample"] = ToIsisPixel(m["sample"]),
                       !.v["line"] = ToIsisPixel(m["line"])]
    IN IF "apriorisample" \in cols
       THEN [b EXCEPT !.has = @ \cup {"apriorisample", "aprioriline"},
                      !.v["apriorisample"] = ToIsisPixel(m["apriorisample"]),
                      !.v["aprioriline"] = ToIsisPixel(m["aprioriline"])]
       ELSE b

PointSpec(df, i) ==
    LET g == Group(df.rows, i)
        reference_row == g[1]
        a == [EmptyPoint EXCEPT
                 !.has = {"id", "type", "referenceIndex"},
                 !.v["id"] = SetPid(i),
                 !.v["type"] = reference_row["pointType"],
                 !.v["referenceIndex"] =
                     IF "referenceIndex" \in df.cols THEN reference_row["referenceIndex"] ELSE 0]
        b == SetPointAttrs(a, reference_row, df.cols, 1)
    IN [b EXCEPT !.measures = @ \o [j \in 1..Len(g) |-> MeasureSpec(g[j], df.cols)]]

\* the returned point_messages
PointMessages(df) ==
    LET keys == GroupKeys(df.rows)
    IN [n \in 1..Len(keys) |-> SerializePoint(PointSpec(df, keys[n]))]

\* the returned point_sizes
PointSizes(df) ==
    LET keys == GroupKeys(df.rows)
    IN [n \in 1..Len(keys) |-> ByteSize(PointSpec(df, keys[n]))]

------------------------------------------------------------------------------
\* IsisStore.create_buffer_header and create_pvl_header

\* The string arguments (networkid, targetname, ...) keep their defaults;
\* every string is the cell 0.
BufferHeader(sizes) ==
    SerializeHeader([has |-> HeaderScalars, v |-> [f \in HeaderScalars |-> 0],
                     pointMessageSizes |-> sizes])

PvlKeys == <<"HeaderStartByte", "HeaderBytes", "PointsStartByte", "PointsBytes",
             "NetworkId", "TargetName", "UserName", "Created", "LastModified",
             "Description", "NumberOfPoints", "NumberOfMeasures", "Version">>

PvlHeader(version, headerstartbyte, header_size, points_bytes, np, nm) ==
    [k \in {PvlKeys[j] : j \in 1..Len(PvlKeys)} |->
        CASE k = "HeaderStartByte" -> headerstartbyte
          [] k = "HeaderBytes" -> header_size
          [] k = "PointsStartByte" -> HEADERSTARTBYTE + header_size
          [] k = "PointsBytes" -> points_bytes
          [] k = "NumberOfPoints" -> np
          [] k = "NumberOfMeasures" -> nm
          [] k = "Version" -> version
          [] OTHER -> 0]

\* pvl.dumps(header).encode('utf-8'): one cell per key
PvlDumps(h) == [j \in 1..Len(PvlKeys) |-> h[PvlKeys[j]]]

\* pvl.load can find the keys only in a file that starts with the text
HasPvl(f) == (0..(Len(PvlKeys) - 1)) \subseteq DOMAIN f

PvlLoad(f) == [k \in {PvlKeys[j] : j \in 1..Len(PvlKeys)} |-> f[IndexOf(PvlKeys, k) - 1]]

\* (a text header written where the binary header starts)
TextHeaderOffsetOverHeader == HEADERSTARTBYTE

\* store.write(data) leaves offset at its default
TextHeaderOffset == 0

------------------------------------------------------------------------------
\* IsisStore.read: the rows of one decoded point

GetPointAttr(cp, attr) == IF attr \in PointScalars THEN cp.v[attr] ELSE cp[attr]

PointAttrOf(c) == CHOOSE a \in {PointFields[k] : k \in 1..Len(PointFields)} : point_field_map(a) = c

MeasureAttrOf(c) == CHOOSE a \in MeasureScalars : measure_field_map(a) = c

PointRows(cp) ==
    [j \in 1..Len(cp.measures) |->
        [c \in AllCols |->
            IF c \in PointCols THEN GetPointAttr(cp, PointAttrOf(c))
            ELSE cp.measures[j].v[MeasureAttrOf(c)]]]

\* df['line'] -= 0.5 and the three others
PixelCols == {"line", "sample", "aprioriline", "apriorisample"}

ConvertRow(r) == [c \in AllCols |-> IF c \in PixelCols THEN FromIsisPixel(r[c]) ELSE r[c]]

ConvertRows(rows) == [k \in 1..Len(rows) |-> ConvertRow(rows[k])]

------------------------------------------------------------------------------
\* MeasureMessageType and MeasureLog
\*
\* A Python value is its type, its number and its string.  The number of an
\* int is the int; the number of a float counts halves, so 3.5 is 7.

PyInt(i) == [type |-> "int", n |-> i, s |-> ""]

PyFloat(h) == [type |-> "float", n |-> h, s |-> ""]

PyStr(t) == [type |-> "str", n |-> 0, s |-> t]

PyNone == [type |-> "NoneType", n |-> 0, s |-> ""]

\* float(x) for an int or a float x, as assigning to a double field does
ToDouble(x) == IF x.type = "int" THEN PyFloat(2 * x.n) ELSE x

MeasureMessageType ==
    [GoodnessOfFit |-> 2, MinimumPixelZScore |-> 3, MaximumPixelZScore |-> 4,
     PixelShift |-> 5, WholePixelCorrelation |-> 6, SubPixelCorrelation |-> 7]

NoMember == [name |-> "", value |-> 0]

\* (an enum lookup that takes an unknown code for the first member)
ByValueLenient(code) ==
    LET names == {k \in DOMAIN MeasureMessageType : MeasureMessageType[k] = code}
    IN IF names = {}
       THEN [ok |-> TRUE, error |-> "",
             member |-> [name |-> "GoodnessOfFit", value |-> MeasureMessageType["GoodnessOfFit"]]]
       ELSE [ok |-> TRUE, error |-> "",
             member |-> [name |-> CHOOSE k \in names : TRUE, value |-> code]]

\* MeasureMessageType(messagetype): ValueError when no member has the value
ByValue(code) ==
    LET names == {k \in DOMAIN MeasureMessageType : MeasureMessageType[k] = code}
    IN IF names = {}
       THEN [ok |-> FALSE, error |-> "ValueError", member |-> NoMember]
       ELSE [ok |-> TRUE, error |-> "",
             member |-> [name |-> CHOOSE k \in names : TRUE, value |-> code]]

\* MeasureMessageType[messagetype]: KeyError when the key is no member name
ByName(key) ==
    IF key.type = "str" /\ key.s \in DOMAIN MeasureMessageType
    THEN [ok |-> TRUE, error |-> "",
          member |-> [name |-> key.s, value |-> MeasureMessageType[key.s]]]
    ELSE [ok |-> FALSE, error |-> "KeyError", member |-> NoMember]

NoLog == [ok |-> FALSE, error |-> "", messagetype |-> NoMember, value |-> PyNone]

\* MeasureLog.__init__
MeasureLogInit(messagetype, value) ==
    LET mt == IF messagetype.type = "int" THEN ByValue(messagetype.n) ELSE ByName(messagetype)
    IN IF ~mt.ok THEN [NoLog EXCEPT !.error = mt.error]
       ELSE IF value.type \notin {"float", "int"} THEN [NoLog EXCEPT !.error = "TypeError"]
       ELSE [ok |-> TRUE, error |-> "", messagetype |-> mt.member, value |-> value]

NoProtobuf == [ok |-> FALSE, error |-> "", doubleDataType |-> 0, doubleDataValue |-> 0]

\* MeasureLog.to_protobuf: log_message is bound for versions 2 and 5 only
to_protobuf(self, version) ==
    IF version \in {2, 5}
    THEN [ok |-> TRUE, error |-> "",
          doubleDataType |-> self.messagetype.value,
          doubleDataValue |-> ToDouble(self.value).n]
    ELSE [NoProtobuf EXCEPT !.error = "UnboundLocalError"]

\* MeasureLog.from_protobuf
from_protobuf(protobuf) ==
    MeasureLogInit(PyInt(protobuf.doubleDataType), PyFloat(protobuf.doubleDataValue))

\* Bound of the integer codes tried.
MaxCode == 9

MessageTypeArgs ==
    {PyInt(c) : c \in 0..MaxCode} \cup {PyInt(99)}
    \cup {PyStr(t) : t \in DOMAIN MeasureMessageType \cup {"Bogus", "pixelshift", "2"}}
    \cup {PyFloat(4), PyNone}

ValueArgs == {PyInt(0), PyInt(1), PyFloat(7), PyStr("3.5"), PyNone}

------------------------------------------------------------------------------
\* State

VARIABLES
    pc,                  \* where the running call stands
    call,                \* "none", "to_isis" or "from_isis"
    handle,              \* IsisStore._handle: "None" or "open"
    fileExists,          \* whether the file at path exists
    file,                \* its content
    args,                \* the arguments of the latest to_isis call
    point_messages, point_sizes, npoints, nmeasures,
    buffer_header_size, point_start_offset, idx,
    writes,              \* the store.write calls of the running to_isis call
    pvl_header, sizes, ridx, rpos, byte_count, pts,
    result,              \* how the latest call ended: "none", "ok", "error"
    df,                  \* the frame the latest from_isis returned
    lpc,                 \* where the latest MeasureLog stands
    logargs,             \* the arguments of the latest MeasureLog(...)
    log,                 \* the MeasureLog it built, or its error
    protobuf,            \* what log.to_protobuf returned
    decoded              \* what MeasureLog.from_protobuf made of it

vars == <<pc, call, handle, fileExists, file, args, point_messages, point_sizes,
          npoints, nmeasures, buffer_header_size, point_start_offset, idx, writes,
          pvl_header, sizes, ridx, rpos, byte_count, pts, result, df,
          lpc, logargs, log, protobuf, decoded>>

lvars == <<lpc, logargs, log, protobuf, decoded>>

svars == <<pc, call, handle, fileExists, file, args, point_messages, point_sizes,
           npoints, nmeasures, buffer_header_size, point_start_offset, idx, writes,
           pvl_header, sizes, ridx, rpos, byte_count, pts, result, df>>

wlocals == <<point_messages, point_sizes, npoints, nmeasures, buffer_header_size,
             point_start_offset, idx, writes>>

rlocals == <<pvl_header, sizes, ridx, rpos, byte_count, pts>>

NoPvl == [k \in {PvlKeys[j] : j \in 1..Len(PvlKeys)} |-> 0]

NoArgs == [obj |-> [cols |-> {}, rows |-> <<>>], version |-> 2,
           headerstartbyte |-> HEADERSTARTBYTE]

ResetW ==
    /\ point_messages' = <<>>
    /\ point_sizes' = <<>>
    /\ npoints' = 0
    /\ nmeasures' = 0
    /\ buffer_header_size' = 0
    /\ point_start_offset' = 0
    /\ idx' = 1
    /\ writes' = <<>>

ResetR ==
    /\ pvl_header' = NoPvl
    /\ sizes' = <<>>
    /\ ridx' = 1
    /\ rpos' = 0
    /\ byte_count' = 0
    /\ pts' = <<>>

Init ==
    /\ pc = "Closed"
    /\ call = "none"
    /\ handle = "None"
    /\ fileExists = FALSE
    /\ file = EmptyFile
    /\ args = NoArgs
    /\ point_messages = <<>>
    /\ point_sizes = <<>>
    /\ npoints = 0
    /\ nmeasures = 0
    /\ buffer_header_size = 0
    /\ point_start_offset = 0
    /\ idx = 1
    /\ writes = <<>>
    /\ pvl_header = NoPvl
    /\ sizes = <<>>
    /\ ridx = 1
    /\ rpos = 0
    /\ byte_count = 0
    /\ pts = <<>>
    /\ result = "none"
    /\ df = <<>>
    /\ lpc = "idle"
    /\ logargs = [messagetype |-> PyNone, value |-> PyNone]
    /\ log = NoLog
    /\ protobuf = NoProtobuf
    /\ decoded = NoLog

\* (a close that leaves the handle as it was)
closeLeak(h) == h

\* IsisStore.close
close(h) == "None"

\* An exception leaves the with block: __exit__ closes the store.  The
\* locals of the call go out of scope when it ends.
Abort ==
    /\ handle' = close(handle)
    /\ pc' = "Closed"
    /\ result' = "error"

------------------------------------------------------------------------------
\* to_isis

\* with IsisStore(path, mode) as store: mode 'wb' creates or truncates the file
ToIsisOpen(obj, version, headerstartbyte) ==
    /\ pc = "Closed"
    /\ call' = "to_isis"
    /\ args' = [obj |-> obj, version |-> version, headerstartbyte |-> headerstartbyte]
    /\ handle' = "open"
    /\ fileExists' = TRUE
    /\ file' = EmptyFile
    /\ pc' = "Open"
    /\ result' = "none"
    /\ df' = <<>>
    /\ ResetW
    /\ ResetR
    /\ UNCHANGED lvars

\* point_messages, point_sizes = store.create_points(obj, ...)
CreatePoints ==
    /\ pc = "Open"
    /\ call = "to_isis"
    /\ point_messages' = PointMessages(args.obj)
    /\ point_sizes' = PointSizes(args.obj)
    /\ npoints' = npoints + Len(GroupKeys(args.obj.rows))
    /\ nmeasures' = nmeasures + Len(args.obj.rows)
    /\ pc' = "PointsEncoded"
    /\ UNCHANGED <<call, handle, fileExists, file, args, buffer_header_size,
                   point_start_offset, idx, writes, result, df>>
    /\ UNCHANGED rlocals
    /\ UNCHANGED lvars

\* create_buffer_header; store.write(buffer_header, HEADERSTARTBYTE)
WriteBufferHeader ==
    /\ pc = "PointsEncoded"
    /\ LET buffer_header == BufferHeader(point_sizes)
       IN /\ file' = WriteAt(file, buffer_header, HEADERSTARTBYTE)
          /\ buffer_header_size' = Len(buffer_header)
          /\ point_start_offset' = HEADERSTARTBYTE + Len(buffer_header)
          /\ writes' = Append(writes, [kind |-> "header", offset |-> HEADERSTARTBYTE,
                                       len |-> Len(buffer_header)])
    /\ idx' = 1
    /\ pc' = IF point_messages = <<>> THEN "PointsWritten" ELSE "BinaryHeaderWritten"
    /\ UNCHANGED <<call, handle, fileExists, args, point_messages, point_sizes,
                   npoints, nmeasures, result, df>>
    /\ UNCHANGED rlocals
    /\ UNCHANGED lvars

\* one turn of: for i, point in enumerate(point_messages)
WritePoint ==
    /\ pc = "BinaryHeaderWritten"
    /\ idx <= Len(point_messages)
    /\ file' = WriteAt(file, point_messages[idx], point_start_offset)
    /\ writes' = Append(writes, [kind |-> "point", offset |-> point_start_offset,
                                 len |-> Len(point_messages[idx])])
    /\ point_start_offset' = point_start_offset + point_sizes[idx]
    /\ idx' = idx + 1
    /\ pc' = IF idx = Len(point_messages) THEN "PointsWritten" ELSE "BinaryHeaderWritten"
    /\ UNCHANGED <<call, handle, fileExists, args, point_messages, point_sizes,
                   npoints, nmeasures, buffer_header_size, result, df>>
    /\ UNCHANGED rlocals
    /\ UNCHANGED lvars

\* (a to_isis that wrote the text header right after encoding the points)
WriteTextHeaderEarly ==
    /\ pc = "PointsEncoded"
    /\ LET header == PvlDumps(PvlHeader(args.version, args.headerstartbyte,
                                        buffer_header_size, SeqSum(point_sizes),
                                        npoints, nmeasures))
       IN /\ file' = WriteAt(file, header, 0)
          /\ writes' = Append(writes, [kind |-> "text", offset |-> 0,
                                       len |-> Len(header)])
    /\ pc' = "TextHeaderWritten"
    /\ UNCHANGED <<call, handle, fileExists, args, point_messages, point_sizes,
                   npoints, nmeasures, buffer_header_size, point_start_offset, idx,
                   result, df>>
    /\ UNCHANGED rlocals
    /\ UNCHANGED lvars

\* header = store.create_pvl_header(...); store.write(header.encode('utf-8'))
WriteTextHeader ==
    /\ pc = "PointsWritten"
    /\ LET header == PvlDumps(PvlHeader(args.version, args.headerstartbyte,
                                        buffer_header_size, SeqSum(point_sizes),
                                        npoints, nmeasures))
       IN /\ file' = WriteAt(file, header, TextHeaderOffset)
          /\ writes' = Append(writes, [kind |-> "text", offset |-> TextHeaderOffset,
                                       len |-> Len(header)])
    /\ pc' = "TextHeaderWritten"
    /\ UNCHANGED <<call, handle, fileExists, args, point_messages, point_sizes,
                   npoints, nmeasures, buffer_header_size, point_start_offset, idx,
                   result, df>>
    /\ UNCHANGED rlocals
    /\ UNCHANGED lvars

------------------------------------------------------------------------------
\* from_isis

\* with IsisStore(path, mode='rb') as store: open fails on a missing file
FromIsisOpen ==
    /\ pc = "Closed"
    /\ call' = "from_isis"
    /\ df' = <<>>
    /\ IF fileExists
       THEN /\ handle' = "open"
            /\ pc' = "Open"
            /\ result' = "none"
       ELSE /\ handle' = "None"
            /\ pc' = "Closed"
            /\ result' = "error"
    /\ ResetR
    /\ UNCHANGED <<fileExists, file, args>>
    /\ UNCHANGED wlocals
    /\ UNCHANGED lvars

\* IsisStore.read up to the first point: the text header, the version
\* dispatch and the binary header
ReadHeader ==
    /\ pc = "Open"
    /\ call = "from_isis"
    /\ LET h == PvlLoad(file)
           bh == ParseHeader(ReadAt(file, h["HeaderStartByte"], h["HeaderBytes"]))
       IN IF HasPvl(file) /\ h["Version"] \in SupportedVersions /\ bh.ok
          THEN /\ pvl_header' = h
               /\ sizes' = bh.msg.pointMessageSizes
               /\ rpos' = h["PointsStartByte"]
               /\ pc' = "HeaderParsed"
               /\ UNCHANGED <<handle, result>>
               /\ UNCHANGED <<ridx, byte_count, pts>>
          ELSE /\ Abort
               /\ ResetR
    /\ UNCHANGED <<call, fileExists, file, args, df>>
    /\ UNCHANGED wlocals
    /\ UNCHANGED lvars

\* one turn of: for s in pbuf_header.pointMessageSizes
ReadPointV2 ==
    /\ pc = "HeaderParsed"
    /\ pvl_header["Version"] = 2
    /\ ridx <= Len(sizes)
    /\ LET b == ReadAt(file, rpos, sizes[ridx])
           cp == ParsePoint(b)
       IN IF cp.ok
          THEN /\ pts' = pts \o PointRows(cp.msg)
               /\ rpos' = rpos + Len(b)
               /\ ridx' = ridx + 1
               /\ UNCHANGED <<pc, handle, result>>
               /\ UNCHANGED <<pvl_header, sizes, byte_count>>
          ELSE /\ Abort
               /\ ResetR
    /\ UNCHANGED <<call, fileExists, file, args, df>>
    /\ UNCHANGED wlocals
    /\ UNCHANGED lvars

\* one turn of: while byte_count < find_in_dict(pvl_header, 'PointsBytes')
ReadPointV5 ==
    /\ pc = "HeaderParsed"
    /\ pvl_header["Version"] = 5
    /\ byte_count < pvl_header["PointsBytes"]
    /\ LET lb == ReadAt(file, rpos, 4)
           message_size == Unpack32(lb)
           b == ReadAt(file, rpos + 4, message_size)
           cp == ParsePoint(b)
       IN IF Len(lb) = 4 /\ cp.ok
          THEN /\ pts' = pts \o PointRows(cp.msg)
               /\ rpos' = rpos + 4 + Len(b)
               /\ byte_count' = byte_count + 4 + message_size
               /\ UNCHANGED <<pc, handle, result>>
               /\ UNCHANGED <<pvl_header, sizes, ridx>>
          ELSE /\ Abort
               /\ ResetR
    /\ UNCHANGED <<call, fileExists, file, args, df>>
    /\ UNCHANGED wlocals
    /\ UNCHANGED lvars

\* the loop is over: build the frame and convert the pixel columns
ReadFinish ==
    /\ pc = "HeaderParsed"
    /\ \/ pvl_header["Version"] = 2 /\ ridx > Len(sizes)
       \/ pvl_header["Version"] = 5 /\ byte_count >= pvl_header["PointsBytes"]
    /\ df' = ConvertRows(pts)
    /\ pc' = "PointsStreamed"
    /\ UNCHANGED <<call, handle, fileExists, file, args, result>>
    /\ UNCHANGED wlocals
    /\ UNCHANGED rlocals
    /\ UNCHANGED lvars

------------------------------------------------------------------------------
\* Leaving the with block

\* __exit__ after the body ran to its end
Exit ==
    /\ pc \in {"TextHeaderWritten", "PointsStreamed"}
    /\ handle' = close(handle)
    /\ pc' = "Closed"
    /\ result' = "ok"
    /\ ResetW
    /\ ResetR
    /\ UNCHANGED <<call, fileExists, file, args, df>>
    /\ UNCHANGED lvars

\* __exit__ after a statement of the body raised (an I/O error, a KeyError)
Raise ==
    /\ handle = "open"
    /\ Abort
    /\ df' = <<>>
    /\ ResetW
    /\ ResetR
    /\ UNCHANGED <<call, fileExists, file, args>>
    /\ UNCHANGED lvars

Next ==
    \/ \E obj \in DataFrames, a \in ToIsisArgs : ToIsisOpen(obj, a[1], a[2])
    \/ CreatePoints
    \/ WriteBufferHeader
    \/ WritePoint
    \/ WriteTextHeader
    \/ FromIsisOpen
    \/ ReadHeader
    \/ ReadPointV2
    \/ ReadPointV5
    \/ ReadFinish
    \/ Exit
    \/ Raise

Spec == Init /\ [][Next]_vars

------------------------------------------------------------------------------
\* MeasureLog objects

\* MeasureLog(messagetype, value)
NewMeasureLog(messagetype, value) ==
    /\ logargs' = [messagetype |-> messagetype, value |-> value]
    /\ log' = MeasureLogInit(messagetype, value)
    /\ protobuf' = NoProtobuf
    /\ decoded' = NoLog
    /\ lpc' = "constructed"
    /\ UNCHANGED svars

\* log.to_protobuf(version)
ToProtobuf(version) ==
    /\ lpc = "constructed"
    /\ log.ok
    /\ protobuf' = to_protobuf(log, version)
    /\ lpc' = "encoded"
    /\ UNCHANGED <<logargs, log, decoded>>
    /\ UNCHANGED svars

\* MeasureLog.from_protobuf(protobuf)
FromProtobuf ==
    /\ lpc = "encoded"
    /\ protobuf.ok
    /\ decoded' = from_protobuf(protobuf)
    /\ lpc' = "decoded"
    /\ UNCHANGED <<logargs, log, protobuf>>
    /\ UNCHANGED svars

NextLog ==
    \/ \E messagetype \in MessageTypeArgs, value \in ValueArgs :
           NewMeasureLog(messagetype, value)
    \/ \E version \in Versions : ToProtobuf(version)
    \/ FromProtobuf

SpecLog == Init /\ [][NextLog]_vars

------------------------------------------------------------------------------
\* What the claims speak about

\* the decoded point of the n-th encoded point message
Decoded(n) == ParsePoint(point_messages[n]).msg

DecodedIds == [n \in 1..Len(point_messages) |-> Decoded(n).v["id"]]

DecodedSerials(n) ==
    [j \in 1..Len(Decoded(n).measures) |-> Decoded(n).measures[j].v["serialnumber"]]

\* the serial numbers of the input rows of point i, in row order
InputSerials(i) ==
    LET g == SelectSeq(args.obj.rows, LAMBDA r : r["id"] = i)
    IN [j \in 1..Len(g) |-> g[j]["serialnumber"]]

InputIds == {args.obj.rows[k]["id"] : k \in 1..Len(args.obj.rows)}

IsAscending(s) == \A a, b \in 1..Len(s) : a < b => s[a] < s[b]

\* the input rows in the order in which create_points encodes them
WrittenRows ==
    LET ids == DecodedIds
    IN Flat([n \in 1..Len(ids) |-> SelectSeq(args.obj.rows, LAMBDA r : r["id"] = ids[n])])

\* the rows supplied to the latest to_isis call, point by point in ascending
\* id order (the order of the messages in a file that to_isis completed)
SuppliedRows ==
    LET ids == SortAsc(InputIds)
    IN Flat([n \in 1..Len(ids) |-> SelectSeq(args.obj.rows, LAMBDA r : r["id"] = ids[n])])

\* the text header of the file being written, once it is there
Recorded == PvlLoad(file)

LastWrite == writes[Len(writes)]

------------------------------------------------------------------------------
\* Claims

\* C1: a network written by to_isis with a supported version V and read back
\* by IsisStore.read under the same V gives back every supplied point and
\* measure attribute, aprioriCovar and adjustedCovar each as its own
\* sequence, the coordinates through the inverse offset; pointLog is absent.
C1_RoundTrip ==
    (pc = "PointsStreamed" /\ args.version \in SupportedVersions
        /\ pvl_header["Version"] = args.version)
    => /\ Len(df) = Len(SuppliedRows)
       /\ \A k \in 1..Len(df) :
            /\ \A c \in args.obj.cols \ {"pointLog"} : df[k][c] = SuppliedRows[k][c]
            /\ df[k]["pointLog"] = <<>>

\* C2 as stated: create_points yields the point buffers in the order in
\* which each point id first occurs in the input rows, and within each point
\* the measures in input row order.
C2_FirstOccurrenceOrder ==
    pc = "PointsEncoded"
    => /\ DecodedIds = FirstOccurrenceKeys(args.obj.rows)
       /\ \A n \in 1..Len(point_messages) : DecodedSerials(n) = InputSerials(DecodedIds[n])

\* C2 as amended: create_points yields one point buffer per point id, in
\* ascending order of the ids, and within each point the measures in input
\* row order; the input's point order is reproduced when its ids first occur
\* in ascending order.
C2_SortedGroupOrder ==
    pc = "PointsEncoded"
    => /\ {DecodedIds[n] : n \in 1..Len(point_messages)} = InputIds
       /\ IsAscending(DecodedIds)
       /\ \A n \in 1..Len(point_messages) : DecodedSerials(n) = InputSerials(DecodedIds[n])
       /\ (IsAscending(FirstOccurrenceKeys(args.obj.rows))
             => DecodedIds = FirstOccurrenceKeys(args.obj.rows))

\* the points were encoded from rows whose ids first occur out of ascending
\* order, one point having two measures with a row of the other in between
C2_Witness ==
    /\ pc = "PointsEncoded"
    /\ ~IsAscending(FirstOccurrenceKeys(args.obj.rows))
    /\ \E n \in 1..Len(point_messages) : Len(Decoded(n).measures) >= 2
    /\ \E k \in 2..(Len(args.obj.rows) - 1) :
         /\ args.obj.rows[k - 1]["id"] # args.obj.rows[k]["id"]
         /\ args.obj.rows[k + 1]["id"] # args.obj.rows[k]["id"]

\* C3: after to_isis with version 5 the points region holds, for each point
\* in order, the 4-byte little-endian length of its buffer and then the
\* buffer.
C3_LengthPrefixedPoints ==
    (pc = "TextHeaderWritten" /\ args.version = 5)
    => ReadAt(file, Recorded["PointsStartByte"], FileSize(file))
         = Flat([n \in 1..Len(point_messages) |->
                    Pack32(point_sizes[n]) \o point_messages[n]])

C5_HeaderAtRecordedOffset ==
    pc = "TextHeaderWritten"
    => /\ writes[1].kind = "header"
       /\ writes[1].offset = Recorded["HeaderStartByte"]
       /\ Recorded["PointsStartByte"] = Recorded["HeaderStartByte"] + Recorded["HeaderBytes"]
       /\ writes[2].kind = "point"
       /\ writes[2].offset = Recorded["PointsStartByte"]

\* C6 as stated: the text header's first byte lies at or after
\* PointsStartByte + PointsBytes.
C6_TextHeaderAfterPoints ==
    pc = "TextHeaderWritten"
    => /\ LastWrite.kind = "text"
       /\ LastWrite.offset >= Recorded["PointsStartByte"] + Recorded["PointsBytes"]

\* C6 as amended: the text header is the last thing written, at byte offset
\* 0, before the binary header; when it is no longer than HEADERSTARTBYTE it
\* ends before every byte of the binary header and of the points.
C6_TextHeaderAtStart ==
    pc = "TextHeaderWritten"
    => /\ LastWrite.kind = "text"
       /\ LastWrite.offset = 0
       /\ LastWrite.offset < Recorded["PointsStartByte"] - Recorded["HeaderBytes"]
       /\ LastWrite.len <= HEADERSTARTBYTE
            => \A k \in 1..(Len(writes) - 1) :
                  /\ writes[k].kind # "text"
                  /\ LastWrite.offset + LastWrite.len <= writes[k].offset

\* the text header was written after a binary header and two points
C6_Witness ==
    /\ pc = "TextHeaderWritten"
    /\ Len(writes) >= 4
    /\ HasPvl(file)

\* the steps of a to_isis call, in order; an exception takes any of them to
\* Closed
WriteOrderSteps ==
    { <<"Closed", "Open">>, <<"Open", "PointsEncoded">>,
      <<"PointsEncoded", "BinaryHeaderWritten">>,
      <<"BinaryHeaderWritten", "PointsWritten">>,
      <<"PointsWritten", "TextHeaderWritten">>,
      <<"TextHeaderWritten", "Closed">> }
    \cup {<<p, "Closed">> : p \in {"Open", "PointsEncoded", "BinaryHeaderWritten", "PointsWritten"}}

\* C7: a to_isis call goes Closed, Open, PointsEncoded, BinaryHeaderWritten,
\* PointsWritten, TextHeaderWritten, Closed (an exception ends it at Closed
\* from where it stands): every point is encoded before the binary header is
\* written, every point buffer is written after the binary header, and the
\* text header is written after all of them and is the last write.
C7_WriteOrder ==
    [][ call' = "to_isis" =>
          /\ pc' # pc => <<pc, pc'>> \in WriteOrderSteps
          /\ (writes' # writes /\ writes' # <<>>) =>
                LET w == writes'[Len(writes')]
                IN /\ writes' = Append(writes, w)
                   /\ w.kind = "header" =>
                         /\ writes = <<>>
                         /\ Len(point_messages) = Cardinality(InputIds)
                         /\ Len(point_sizes) = Len(point_messages)
                   /\ w.kind = "point" =>
                         /\ writes # <<>>
                         /\ writes[1].kind = "header"
                         /\ \A k \in 1..Len(writes) : writes[k].kind # "text"
                   /\ w.kind = "text" =>
                         /\ Len(writes) = 1 + Len(point_messages)
                         /\ pc' = "TextHeaderWritten"
          /\ pc = "TextHeaderWritten" => (pc' = "Closed" /\ file' = file)
      ]_vars

\* a to_isis call wrote the binary header, two points and the text header
C7_Witness ==
    /\ pc = "TextHeaderWritten"
    /\ Len(point_messages) = 2
    /\ [k \in 1..Len(writes) |-> writes[k].kind] = <<"header", "point", "point", "text">>

\* C8: create_points encodes sample, line and the supplied a-priori
\* sample/line as the in-memory value plus 0.5 and every other field as it
\* is; read returns the on-disk value minus 0.5 for these four columns and
\* every other column as it is; a version 2 write followed by a read gives
\* back the original coordinates.
C8_CoordinateOffset ==
    /\ pc = "PointsEncoded" =>
         \A k \in 1..Len(WrittenRows) :
            LET m == Flat([n \in 1..Len(point_messages) |-> Decoded(n).measures])[k]
                r == WrittenRows[k]
            IN /\ m.v["sample"] = r["sample"] + HalfPixel
               /\ m.v["line"] = r["line"] + HalfPixel
               /\ "apriorisample" \in args.obj.cols =>
                     /\ m.v["apriorisample"] = r["apriorisample"] + HalfPixel
                     /\ m.v["aprioriline"] = r["aprioriline"] + HalfPixel
               /\ "apriorisample" \notin args.obj.cols =>
                     {"apriorisample", "aprioriline"} \cap m.has = {}
               /\ m.v["serialnumber"] = r["serialnumber"]
               /\ m.v["type"] = r["measureType"]
               /\ "sampleResidual" \in args.obj.cols =>
                     m.v["sampleResidual"] = r["sampleResidual"]
    /\ pc = "PointsStreamed" =>
         /\ Len(df) = Len(pts)
         /\ \A k \in 1..Len(df) : \A c \in AllCols :
               df[k][c] = IF c \in {"sample", "line", "apriorisample", "aprioriline"}
                          THEN pts[k][c] - HalfPixel ELSE pts[k][c]
    /\ (pc = "PointsStreamed" /\ pvl_header["Version"] = 2) =>
         /\ Len(df) = Len(SuppliedRows)
         /\ \A k \in 1..Len(df) :
               /\ df[k]["sample"] = SuppliedRows[k]["sample"]
               /\ df[k]["line"] = SuppliedRows[k]["line"]
               /\ "apriorisample" \in args.obj.cols =>
                     /\ df[k]["apriorisample"] = SuppliedRows[k]["apriorisample"]
                     /\ df[k]["aprioriline"] = SuppliedRows[k]["aprioriline"]
               /\ "sampleResidual" \in args.obj.cols =>
                     df[k]["sampleResidual"] = SuppliedRows[k]["sampleResidual"]

\* the measure with in-memory sample 10.0, line 20.0 and supplied a-priori
\* coordinates was on disk as 10.5, 20.5 and is read back as 10.0, 20.0
C8_Witness ==
    /\ pc = "PointsStreamed"
    /\ "apriorisample" \in args.obj.cols
    /\ Len(df) >= 2
    /\ args.obj.rows[1]["sample"] = 20 /\ args.obj.rows[1]["line"] = 40
    /\ pts[1]["sample"] = 21 /\ pts[1]["line"] = 41
    /\ df[1]["sample"] = 20 /\ df[1]["line"] = 40

\* C9: a read or a write with a version other than 2 and 5 is aborted: read
\* builds no frame, and to_isis leaves no file that records the version.
C9_UnsupportedVersionFatal ==
    /\ (call = "from_isis" /\ HasPvl(file) /\ Recorded["Version"] \notin SupportedVersions)
          => (pc \in {"Open", "Closed"} /\ df = <<>> /\ result # "ok")
    /\ (call = "to_isis" /\ args.version \notin SupportedVersions)
          => ~(HasPvl(file) /\ Recorded["Version"] = args.version)

\* C10: the handle is open only while a call runs; when from_isis or
\* to_isis has returned or failed, at whatever step, the handle is closed
\* and reset.
C10_HandleScoped ==
    /\ pc = "Closed" => handle = "None"
    /\ handle = "open" => (call \in {"to_isis", "from_isis"} /\ pc # "Closed")
    /\ pc # "Closed" => handle = "open"

\* a to_isis call failed after the binary header was written and before the
\* text header was
C10_Witness ==
    /\ pc = "Closed"
    /\ call = "to_isis"
    /\ result = "error"
    /\ DOMAIN file # {}
    /\ ~HasPvl(file)
    /\ handle = "None"

\* the members the enumeration is said to have
C11_Members ==
    { <<"GoodnessOfFit", 2>>, <<"MinimumPixelZScore", 3>>, <<"MaximumPixelZScore", 4>>,
      <<"PixelShift", 5>>, <<"WholePixelCorrelation", 6>>, <<"SubPixelCorrelation", 7>> }

\* C11: MeasureLog(messagetype, value) with a numeric value succeeds by
\* integer code exactly for the codes 2 to 7 and by name exactly for the six
\* member names, and yields the member with that code or name; any other
\* code or name fails, and so does a non-numeric value; MeasureLog(2, 3.5) is
\* GoodnessOfFit with value 3.5; to_protobuf passes the ordinal and the
\* value through, and from_protobuf(to_protobuf(log)) has the type and the
\* value of log.
C11_MeasureLogConstruction ==
    /\ lpc # "idle" =>
         LET mt == logargs.messagetype
             numeric == logargs.value.type \in {"int", "float"}
         IN /\ ~numeric => ~log.ok
            /\ (numeric /\ mt.type = "int") =>
                  /\ log.ok <=> mt.n \in 2..7
                  /\ log.ok => log.messagetype.value = mt.n
            /\ (numeric /\ mt.type = "str") =>
                  /\ log.ok <=> \E m \in C11_Members : m[1] = mt.s
                  /\ log.ok => log.messagetype.name = mt.s
            /\ (numeric /\ mt.type \notin {"int", "str"}) => ~log.ok
            /\ log.ok =>
                  /\ <<log.messagetype.name, log.messagetype.value>> \in C11_Members
                  /\ log.value = logargs.value
            /\ ~log.ok => log.error \in {"ValueError", "KeyError", "TypeError"}
            /\ (mt = PyInt(2) /\ logargs.value = PyFloat(7)) =>
                  /\ log.ok
                  /\ log.messagetype.name = "GoodnessOfFit"
                  /\ log.value = PyFloat(7)
            /\ mt = PyInt(99) => ~log.ok
    /\ (lpc \in {"encoded", "decoded"} /\ protobuf.ok) =>
         /\ protobuf.doubleDataType = log.messagetype.value
         /\ protobuf.doubleDataValue =
               (IF log.value.type = "int" THEN 2 * log.value.n ELSE log.value.n)
    /\ lpc = "decoded" =>
         /\ decoded.ok
         /\ decoded.messagetype = log.messagetype
         /\ decoded.value.n = (IF log.value.type = "int" THEN 2 * log.value.n ELSE log.value.n)

\* MeasureLog(2, 3.5) went through to_protobuf and from_protobuf
C11_Witness ==
    /\ lpc = "decoded"
    /\ logargs = [messagetype |-> PyInt(2), value |-> PyFloat(7)]
    /\ decoded.ok
    /\ decoded.messagetype.name = "GoodnessOfFit"
    /\ decoded.value = PyFloat(7)

====
